---- MODULE Spec2Model ----
(***************************************************************************)
(* keycloak-gatekeeper: the reverse-proxy request pipeline.                *)
(*                                                                         *)
(* createReverseProxy (reverse_proxy.go) binds, on a chi router, one       *)
(* middleware chain per Resource plus the behaviour of the default route   *)
(* "/*"; proxyMiddleware is the outermost link of a chain: it runs the     *)
(* inner chain first and forwards the request afterwards, unless the       *)
(* RequestScope says that access was denied.                               *)
(*                                                                         *)
(* Strings that the code inspects (URL patterns, paths) are sequences of   *)
(* one-character strings.  One request is in flight at a time: the only    *)
(* state a request shares with another one is the configuration and the    *)
(* router, which do not change after startup.  The value of a header or a  *)
(* cookie is drawn by the step that first reads it.                        *)
(*                                                                         *)
(* Spec is the pipeline.  SpecPath, SpecHeaders and SpecCookies start from  *)
(* a request whose inner chain has returned and apply the rewriting of     *)
(* proxyMiddleware to every path, header set and cookie set of their       *)
(* bounds; SpecLogin is the login flow around the request_uri cookie;      *)
(* SpecConcurrent interleaves the handlers of several requests.            *)
(***************************************************************************)
EXTENDS Integers, Sequences, FiniteSets, TLC

VARIABLES config, router, phase, req

vars == <<config, router, phase, req>>

----------------------------------------------------------------------------
(* Bounds of the model *)

\* longest list of resources a configuration declares
MaxResources == 2

\* the longest path of a request whose rewriting is checked on its own
MaxPathLen == 5

\* the most values of an inbound X-Forwarded-For header
MaxForwardedFor == 2

\* the most cookies of an inbound request
MaxCookies == 2

\* the longest URL a login has to come back to
MaxURLLen == 3

\* the number of requests that are handled at the same time
MaxRequests == 2

----------------------------------------------------------------------------
(* Program constants *)

\* the catch-all pattern
allRoutes == <<"/", "*">>

\* the full method set
allHTTPMethods == <<"DELETE", "GET", "HEAD", "OPTIONS", "PATCH", "POST", "PUT", "TRACE">>

\* the methods CSRF protection applies to
unsafeMethods == {"POST", "PUT", "PATCH", "DELETE"}

\* the scheme of a plain HTTP upstream
unsecureScheme == <<"h", "t", "t", "p">>

secureScheme == <<"h", "t", "t", "p", "s">>

\* the name of the cookie that carries the URL to come back to after a login
requestURICookie == "request_uri"

\* Config.CSRFCookieName and Config.CSRFHeader
CSRFCookieName == "kc-csrf"

CSRFHeaderName == "X-Csrf-Token"

\* the headers a request of the model may carry
HeaderNames ==
    { "X-Forwarded-For", "X-Forwarded-Host", "X-Forwarded-Proto", "Origin",
      "Host", "Connection", "Upgrade", CSRFHeaderName }

----------------------------------------------------------------------------
(* Helpers on sequences *)

Range(s) == {s[i] : i \in 1..Len(s)}

IsPrefix(p, s) == Len(p) <= Len(s) /\ SubSeq(s, 1, Len(p)) = p

Front(s) == SubSeq(s, 1, Len(s) - 1)

Last(s) == s[Len(s)]

RECURSIVE SeqsUpTo(_, _)
\* every sequence over S of length at most n
SeqsUpTo(S, n) ==
    IF n = 0 THEN {<<>>}
    ELSE LET shorter == SeqsUpTo(S, n - 1)
         IN  shorter \cup {Append(s, x) : s \in {t \in shorter : Len(t) = n - 1}, x \in S}

----------------------------------------------------------------------------
(* Strings, as the Go library functions the code calls treat them *)

\* strings.Index for a one-character separator, from position from on; 0: none
IndexFrom(s, c, from) ==
    IF \E i \in from..Len(s) : s[i] = c
    THEN CHOOSE i \in from..Len(s) : s[i] = c /\ \A j \in from..(i - 1) : s[j] # c
    ELSE 0

\* strings.TrimPrefix
TrimPrefix(s, prefix) ==
    IF IsPrefix(prefix, s) THEN SubSeq(s, Len(prefix) + 1, Len(s)) ELSE s

RECURSIVE Split(_)
\* strings.Split(s, "/")
Split(s) ==
    LET i == IndexFrom(s, "/", 1)
    IN  IF i = 0 THEN <<s>>
        ELSE <<SubSeq(s, 1, i - 1)>> \o Split(SubSeq(s, i + 1, Len(s)))

RECURSIVE JoinSegments(_)
\* strings.Join(segments, "/")
JoinSegments(segs) ==
    IF Len(segs) = 0 THEN <<>>
    ELSE IF Len(segs) = 1 THEN segs[1]
    ELSE segs[1] \o <<"/">> \o JoinSegments(Tail(segs))

RECURSIVE CleanSegments(_, _, _)
\* the loop of path.Clean: empty and "." elements are dropped, ".." removes
\* the element before it, is dropped at the root and is kept at the start of
\* a path that is not rooted
CleanSegments(segs, out, rooted) ==
    IF Len(segs) = 0 THEN out
    ELSE LET e == Head(segs)
             rest == Tail(segs)
         IN  IF e = <<>> \/ e = <<".">> THEN CleanSegments(rest, out, rooted)
             ELSE IF e = <<".", ".">>
             THEN IF Len(out) > 0 /\ Last(out) # <<".", ".">>
                  THEN CleanSegments(rest, Front(out), rooted)
                  ELSE IF rooted THEN CleanSegments(rest, out, rooted)
                  ELSE CleanSegments(rest, Append(out, e), rooted)
             ELSE CleanSegments(rest, Append(out, e), rooted)

\* path.Clean
Clean(p) ==
    IF Len(p) = 0 THEN <<".">>
    ELSE LET rooted == p[1] = "/"
             body == JoinSegments(CleanSegments(Split(p), <<>>, rooted))
         IN  IF rooted THEN <<"/">> \o body
             ELSE IF Len(body) = 0 THEN <<".">> ELSE body

\* path.Join of two elements
Join(a, b) ==
    IF Len(a) = 0 /\ Len(b) = 0 THEN <<>>
    ELSE IF Len(a) = 0 THEN Clean(b)
    ELSE IF Len(b) = 0 THEN Clean(a)
    ELSE Clean(a \o <<"/">> \o b)

\* url.Parse of "scheme://host/path", and of a path alone
Parse(text) ==
    LET colon == IndexFrom(text, ":", 1)
    IN  IF colon > 1 /\ Len(text) >= colon + 2
           /\ text[colon + 1] = "/" /\ text[colon + 2] = "/"
        THEN LET slash == IndexFrom(text, "/", colon + 3)
             IN  [ Scheme |-> SubSeq(text, 1, colon - 1),
                   Host |-> IF slash = 0 THEN SubSeq(text, colon + 3, Len(text))
                            ELSE SubSeq(text, colon + 3, slash - 1),
                   Path |-> IF slash = 0 THEN <<>> ELSE SubSeq(text, slash, Len(text)) ]
        ELSE [ Scheme |-> <<>>, Host |-> <<>>, Path |-> text ]

----------------------------------------------------------------------------
(* Configuration *)

\* the upstream URLs a configuration file may name
unixSocketUpstream == <<"u", "n", "i", "x", ":", "/", "/", "/", "s">>

httpUpstream == <<"h", "t", "t", "p", ":", "/", "/", "d">>

httpsUpstreamWithBase == <<"h", "t", "t", "p", "s", ":", "/", "/", "u", "/", "b">>

\* the resources a configuration file may declare
ResourcePool ==
    { [URL |-> <<"/", "a", "*">>, Methods |-> <<"GET">>, WhiteListed |-> FALSE,
       Roles |-> {"admin"}, EnableCSRF |-> TRUE,
       Upstream |-> <<>>, StripBasePath |-> <<>>],
      [URL |-> <<"/", "a", "*">>, Methods |-> <<>>, WhiteListed |-> FALSE,
       Roles |-> {}, EnableCSRF |-> TRUE,
       Upstream |-> httpsUpstreamWithBase, StripBasePath |-> <<"/", "a">>],
      [URL |-> <<"/", "a", "*">>, Methods |-> <<"GET">>, WhiteListed |-> TRUE,
       Roles |-> {}, EnableCSRF |-> FALSE,
       Upstream |-> <<>>, StripBasePath |-> <<"/", "a">>],
      [URL |-> allRoutes, Methods |-> <<"GET", "POST">>, WhiteListed |-> FALSE,
       Roles |-> {}, EnableCSRF |-> FALSE,
       Upstream |-> <<>>, StripBasePath |-> <<>>],
      [URL |-> allRoutes, Methods |-> <<>>, WhiteListed |-> TRUE,
       Roles |-> {}, EnableCSRF |-> FALSE,
       Upstream |-> <<>>, StripBasePath |-> <<>>],
      [URL |-> <<"/", "a">>, Methods |-> <<"GET", "POST">>, WhiteListed |-> TRUE,
       Roles |-> {}, EnableCSRF |-> FALSE,
       Upstream |-> httpsUpstreamWithBase, StripBasePath |-> <<>>] }

\* Resource.valid: a resource that lists no method is given all of them
valid(x) ==
    IF Len(x.Methods) = 0 THEN [x EXCEPT !.Methods = allHTTPMethods] ELSE x

\* the methods and paths of the requests the model sends
RequestMethods == {"GET", "POST"}

RequestPaths == { <<"/", "a">>, <<"/", "a", "/", "x">>, <<"/", "b">> }

\* the roles a token may carry
TokenRoles == { {}, {"admin"} }

----------------------------------------------------------------------------
(* The chi router *)

\* what a middleware chain ends in
emptyHandlerName == "emptyHandler"
methodNotAllowedHandlerName == "methodNotAllowedHandler"
methodNotFoundHandlerName == "methodNotFoundHandler"

\* engine.With(mw...).Handle: the handler bound to a route is the chain of
\* middlewares, outermost first, around a terminal handler; res is the index
\* in config.Resources of the resource the closures captured (0: nil)
Endpoint(mw, res, terminal) == [mw |-> mw, res |-> res, terminal |-> terminal]

\* Mux.Handle: binds the pattern for every method, replacing what was bound
Handle(rt, pattern, h) ==
    [p \in DOMAIN rt \cup {pattern} |->
        IF p = pattern THEN [m \in Range(allHTTPMethods) |-> h] ELSE rt[p]]

\* Mux.MethodFunc: binds the pattern for one method, replacing what was bound
MethodFunc(rt, method, pattern, h) ==
    [p \in DOMAIN rt \cup {pattern} |->
        IF p = pattern
        THEN [m \in Range(allHTTPMethods) |->
                IF m = method THEN h ELSE rt[p][m]]
        ELSE rt[p]]

\* a pattern ending in "*" matches every path that extends what precedes the
\* wildcard, any other pattern matches itself only
Matches(pattern, path) ==
    IF Last(pattern) = "*" THEN IsPrefix(Front(pattern), path) ELSE pattern = path

\* tree.FindRoute: a static match is preferred to a wildcard one, and among
\* wildcards the deepest node of the tree wins
FindRoute(rt, path) ==
    LET cands == {p \in DOMAIN rt : Matches(p, path)}
        exact == {p \in cands : Last(p) # "*"}
    IN  IF exact # {} THEN CHOOSE p \in exact : TRUE
        ELSE CHOOSE p \in cands : \A q \in cands : Len(q) <= Len(p)

----------------------------------------------------------------------------
(* createReverseProxy *)

\* a chain in which admission is decided before the identity is established
protectedChainSwapped ==
    << "proxyMiddleware", "admissionMiddleware", "authenticationMiddleware",
       "identityHeadersMiddleware", "csrfSkipResourceMiddleware",
       "csrfProtectMiddleware", "csrfHeaderMiddleware" >>

\* the chain of a protected resource, outermost first
protectedChain ==
    << "proxyMiddleware", "authenticationMiddleware", "admissionMiddleware",
       "identityHeadersMiddleware", "csrfSkipResourceMiddleware",
       "csrfProtectMiddleware", "csrfHeaderMiddleware" >>

\* the chain of a whitelisted resource
whiteListedChain == << "proxyMiddleware" >>

\* chains that leave authentication out
resourceChainNoAuth(x) ==
    IF ~x.WhiteListed
    THEN << "proxyMiddleware", "admissionMiddleware", "identityHeadersMiddleware",
            "csrfSkipResourceMiddleware", "csrfProtectMiddleware",
            "csrfHeaderMiddleware" >>
    ELSE whiteListedChain

\* chains that ignore the WhiteListed flag
resourceChainAlwaysProtected(x) == protectedChain

\* the chain r.config.Resources[i] is served by
resourceChain(x) == IF ~x.WhiteListed THEN protectedChain ELSE whiteListedChain

\* a default denial that does not look at the declared resources
addDefaultDenyAlways(cfg) == cfg.EnableDefaultDeny

\* lines 103-114: the default denial is added unless a resource covers "/*"
addDefaultDeny(cfg) ==
    cfg.EnableDefaultDeny
    /\ ~(\E i \in 1..Len(cfg.Resources) :
            cfg.Resources[i].URL = allRoutes /\ cfg.EnableDefaultDeny)

\* lines 129-135
foundAllRoutes(cfg) ==
    \E i \in 1..Len(cfg.Resources) : cfg.Resources[i].URL = allRoutes

\* a default denial that is appended as a whitelisted resource
provisionedResourcesWhiteListed(cfg) ==
    IF addDefaultDeny(cfg) /\ ~cfg.EnableDefaultNotFound
    THEN Append(cfg.Resources,
                [URL |-> allRoutes, Methods |-> allHTTPMethods, WhiteListed |-> TRUE,
                 Roles |-> {}, EnableCSRF |-> FALSE,
                 Upstream |-> <<>>, StripBasePath |-> <<>>])
    ELSE cfg.Resources

\* line 124: the resources after the default denial has been appended
provisionedResources(cfg) ==
    IF addDefaultDeny(cfg) /\ ~cfg.EnableDefaultNotFound
    THEN Append(cfg.Resources,
                [URL |-> allRoutes, Methods |-> allHTTPMethods, WhiteListed |-> FALSE,
                 Roles |-> {}, EnableCSRF |-> FALSE,
                 Upstream |-> <<>>, StripBasePath |-> <<>>])
    ELSE cfg.Resources

\* a default route that always asks for authentication
defaultRouteAuthenticated(cfg, rt) ==
    IF addDefaultDeny(cfg)
    THEN IF cfg.EnableDefaultNotFound
         THEN Handle(rt, allRoutes,
                     Endpoint(<<"authenticationMiddleware">>, 0, methodNotFoundHandlerName))
         ELSE rt
    ELSE IF cfg.EnableDefaultNotFound
         THEN IF ~foundAllRoutes(cfg)
              THEN Handle(rt, allRoutes, Endpoint(<<>>, 0, methodNotFoundHandlerName))
              ELSE rt
         ELSE Handle(rt, allRoutes,
                     Endpoint(<<"proxyMiddleware", "authenticationMiddleware">>, 0,
                              emptyHandlerName))

\* lines 116-144: the behaviour bound to the default route
defaultRoute(cfg, rt) ==
    IF addDefaultDeny(cfg)
    THEN IF cfg.EnableDefaultNotFound
         THEN Handle(rt, allRoutes,
                     Endpoint(<<"authenticationMiddleware">>, 0, methodNotFoundHandlerName))
         ELSE rt
    ELSE IF cfg.EnableDefaultNotFound
         THEN IF ~foundAllRoutes(cfg)
              THEN Handle(rt, allRoutes, Endpoint(<<>>, 0, methodNotFoundHandlerName))
              ELSE rt
         ELSE Handle(rt, allRoutes,
                     Endpoint(<<"proxyMiddleware">>, 0, emptyHandlerName))

\* a binding that forgets the listed methods
bindMethodsNone(rt, resources, i, k) == rt

RECURSIVE bindMethods(_, _, _, _)
\* lines 158-160 and 165-167: each listed method is bound to the empty handler
bindMethods(rt, resources, i, k) ==
    IF k > Len(resources[i].Methods) THEN rt
    ELSE bindMethods(
            MethodFunc(rt, resources[i].Methods[k], resources[i].URL,
                       Endpoint(resourceChain(resources[i]), i, emptyHandlerName)),
            resources, i, k + 1)

\* a binding that lets every method through to the empty handler
protectResourceAnyMethod(rt, resources, i) ==
    Handle(rt, resources[i].URL,
           Endpoint(resourceChain(resources[i]), i, emptyHandlerName))

\* lines 147-168: one resource is bound: every method to the MethodNotAllowed
\* handler first, then the listed ones to the empty handler
protectResource(rt, resources, i) ==
    bindMethods(
        Handle(rt, resources[i].URL,
               Endpoint(resourceChain(resources[i]), i, methodNotAllowedHandlerName)),
        resources, i, 1)

RECURSIVE protectResourcesReversed(_, _, _)
\* a loop that binds the resources from the last to the first
protectResourcesReversed(rt, resources, i) ==
    IF i > Len(resources) THEN rt
    ELSE protectResource(protectResourcesReversed(rt, resources, i + 1), resources, i)

RECURSIVE protectResources(_, _, _)
\* lines 146-169: the resources are bound in the order of the configuration
protectResources(rt, resources, i) ==
    IF i > Len(resources) THEN rt
    ELSE protectResources(protectResource(rt, resources, i), resources, i + 1)

\* the router has no route before startup
noRoutes == [p \in {} |-> 0]

\* the router createReverseProxy builds for a configuration
buildRouter(cfg) ==
    protectResources(defaultRoute(cfg, noRoutes), provisionedResources(cfg), 1)

----------------------------------------------------------------------------
(* A request on its way through the chain it was routed to *)

noIdentity == [valid |-> FALSE, roles |-> {}]

\* a header map without entries, and the operations of http.Header
noHeader == [k \in HeaderNames |-> <<>>]

Get(h, k) == IF Len(h[k]) = 0 THEN <<>> ELSE h[k][1]

Set(h, k, v) == [h EXCEPT ![k] = <<v>>]

Add(h, k, v) == [h EXCEPT ![k] = Append(@, v)]

Del(h, k) == [h EXCEPT ![k] = <<>>]

\* what a client sent: Host, peer address, headers and cookies
noInbound == [host |-> <<>>, remote |-> <<>>, header |-> noHeader, cookies |-> <<>>]

noURL == [Scheme |-> <<>>, Host |-> <<>>, Path |-> <<>>]

\* no connection to an upstream
noDial == [network |-> "none", address |-> <<>>]

\* no request is in flight
noRequest ==
    [ pc |-> "idle", method |-> "", path |-> <<>>,
      ep |-> Endpoint(<<>>, 0, ""), idx |-> 0,
      scope |-> [AccessDenied |-> FALSE, Identity |-> noIdentity],
      token |-> "", csrfSkip |-> FALSE, status |-> 0, log |-> <<>>,
      rewritten |-> FALSE, upstream |-> "none",
      inbound |-> noInbound, host |-> <<>>, header |-> noHeader,
      cookies |-> <<>>, url |-> noURL, dialed |-> noDial, contacts |-> 0 ]

\* the request as the server hands it to the router: what the client sent,
\* with a URL that has a path and neither scheme nor host
received(rq, inb) ==
    [ rq EXCEPT !.inbound = inb, !.host = inb.host, !.header = inb.header,
                !.cookies = inb.cookies, !.url = [noURL EXCEPT !.Path = rq.path] ]

\* the response status: the first WriteHeader of a response is the one sent
WriteHeader(rq, code) == IF rq.status = 0 THEN code ELSE rq.status

\* Mux.ServeHTTP under entrypointMiddleware: the scope of the request is
\* created, then the router selects the handler bound to the path and method
routeRequest(rt, method, path) ==
    LET ep == rt[FindRoute(rt, path)][method]
    IN  [ noRequest EXCEPT
            !.pc = IF Len(ep.mw) = 0 THEN "terminal" ELSE "chain",
            !.method = method, !.path = path, !.ep = ep, !.idx = 1 ]

\* the middleware the request is about to enter
current(rq) == IF rq.pc = "chain" THEN rq.ep.mw[rq.idx] ELSE ""

\* next.ServeHTTP: the next link of the chain, the terminal handler after the last
callNext(rq, name) ==
    [ rq EXCEPT !.log = Append(@, name),
                !.idx = @ + 1,
                !.pc = IF rq.idx = Len(rq.ep.mw) THEN "terminal" ELSE "chain" ]

\* a handler returns without calling the next one: control goes back to the
\* proxy middleware when it is the outermost link, and the response is
\* complete otherwise
unwind(rq, name) ==
    [ rq EXCEPT !.log = Append(@, name),
                !.pc = IF "proxyMiddleware" \in Range(rq.log) THEN "proxy" ELSE "done" ]

\* a middleware denies access: it writes the response, marks the scope and
\* does not call the next handler
deny(rq, name, code) ==
    [ unwind(rq, name) EXCEPT !.status = WriteHeader(rq, code),
                              !.scope.AccessDenied = TRUE ]

\* proxyMiddleware, lines 211-212: the inner chain runs first
proxyMiddlewareEnter(rq) == callNext(rq, "proxyMiddleware")

\* authenticationMiddleware: a valid token, or an expired one that could be
\* refreshed, gives the scope its identity; any other request is redirected
\* to the identity provider when it accepts HTML and answered 401 otherwise
authenticationMiddleware(rq, token, roles, refreshed, acceptsHTML) ==
    IF token = "valid" \/ (token = "expired" /\ refreshed)
    THEN [ callNext(rq, "authenticationMiddleware") EXCEPT
             !.token = token,
             !.scope.Identity = [valid |-> TRUE, roles |-> roles] ]
    ELSE [ deny(rq, "authenticationMiddleware", IF acceptsHTML THEN 302 ELSE 401)
             EXCEPT !.token = token ]

\* admissionMiddleware: the method must be one of the resource's and every
\* role the resource requires must be among the identity's
admissionMiddleware(rq, cfg) ==
    LET x == cfg.Resources[rq.ep.res]
    IN  IF rq.method \notin Range(x.Methods)
        THEN deny(rq, "admissionMiddleware", 405)
        ELSE IF ~(x.Roles \subseteq rq.scope.Identity.roles)
        THEN deny(rq, "admissionMiddleware", 403)
        ELSE callNext(rq, "admissionMiddleware")

\* identityHeadersMiddleware: adds the X-Auth headers and goes on
identityHeadersMiddleware(rq) == callNext(rq, "identityHeadersMiddleware")

\* csrfSkipResourceMiddleware: no CSRF check for a resource that opts out
csrfSkipResourceMiddleware(rq, cfg) ==
    [ callNext(rq, "csrfSkipResourceMiddleware") EXCEPT
        !.csrfSkip = ~cfg.Resources[rq.ep.res].EnableCSRF ]

\* the value of the cookie of that name, empty when the request has none
cookieValue(cookies, name) ==
    LET named == SelectSeq(cookies, LAMBDA c : c.Name = name)
    IN  IF Len(named) = 0 THEN <<>> ELSE named[1].Value

\* the protection applies: it is enabled, the resource has not opted out and
\* the method is unsafe
csrfProtected(rq, cfg) ==
    cfg.EnableCSRF /\ ~rq.csrfSkip /\ rq.method \in unsafeMethods

\* a protection that lets an unsafe request without the CSRF header through
csrfProtectMiddlewareLax(rq, cfg) ==
    LET token == Get(rq.header, CSRFHeaderName)
    IN  IF csrfProtected(rq, cfg)
           /\ token # <<>> /\ token # cookieValue(rq.cookies, CSRFCookieName)
        THEN deny(rq, "csrfProtectMiddleware", 403)
        ELSE callNext(rq, "csrfProtectMiddleware")

\* csrfProtectMiddleware: an unsafe method needs the CSRF header to carry the
\* value of the CSRF cookie
csrfProtectMiddleware(rq, cfg) ==
    LET token == Get(rq.header, CSRFHeaderName)
    IN  IF csrfProtected(rq, cfg)
           /\ (token = <<>> \/ token # cookieValue(rq.cookies, CSRFCookieName))
        THEN deny(rq, "csrfProtectMiddleware", 403)
        ELSE callNext(rq, "csrfProtectMiddleware")

\* csrfHeaderMiddleware: echoes the CSRF token in the response and goes on
csrfHeaderMiddleware(rq) == callNext(rq, "csrfHeaderMiddleware")

\* emptyHandler
emptyHandler(rq) == unwind(rq, emptyHandlerName)

\* methodNotAllowedHandler
methodNotAllowedHandler(rq) ==
    [ unwind(rq, methodNotAllowedHandlerName) EXCEPT !.status = WriteHeader(rq, 405) ]

\* methodNotFoundHandler
methodNotFoundHandler(rq) ==
    [ unwind(rq, methodNotFoundHandlerName) EXCEPT !.status = WriteHeader(rq, 404) ]

\* a test of the Connection header alone
isUpgradedConnectionAlone(rq) ==
    Get(rq.header, "Connection") = <<"u", "p", "g", "r", "a", "d", "e">>

\* isUpgradedConnection: the Connection header contains "upgrade" and an
\* Upgrade header is present
isUpgradedConnection(rq) ==
    /\ Get(rq.header, "Connection") = <<"u", "p", "g", "r", "a", "d", "e">>
    /\ Get(rq.header, "Upgrade") # <<>>

\* realIP: the address in X-Forwarded-For when the request has one, the
\* address of the peer otherwise
realIP(rq) ==
    IF Get(rq.header, "X-Forwarded-For") # <<>>
    THEN Get(rq.header, "X-Forwarded-For")
    ELSE rq.inbound.remote

\* filterCookies: the request without the cookies that are named
filterCookies(cookies, filter) ==
    SelectSeq(cookies, LAMBDA c : c.Name \notin filter)

\* proxyMiddleware, lines 192-208: what the handler of a resource (0: of no
\* resource) keeps of the upstream it forwards to
proxyMiddleware(cfg, res) ==
    LET own == res # 0 /\ cfg.Resources[res].Upstream # <<>>
        u == IF own THEN Parse(cfg.Resources[res].Upstream) ELSE cfg.endpoint
    IN  [ upstreamHost |-> u.Host,
          upstreamScheme |-> u.Scheme,
          upstreamBasePath |-> u.Path,
          stripBasePath |-> IF res # 0 THEN cfg.Resources[res].StripBasePath ELSE <<>> ]

\* lines 238-240: every configured header replaces the values of its name
customHeaders(h, headers) ==
    [k \in HeaderNames |-> IF k \in DOMAIN headers THEN <<headers[k]>> ELSE h[k]]

\* forwarding headers where the address replaces X-Forwarded-For
forwardingHeadersSetFor(rq, cfg, scheme) ==
    LET h1 == Set(rq.header, "X-Forwarded-For", realIP(rq))
        h2 == Set(h1, "X-Forwarded-Host", rq.host)
        fp == Get(h2, "X-Forwarded-Proto")
        h3 == Set(h2, "X-Forwarded-Proto", IF fp # <<>> THEN fp ELSE scheme)
        h4 == IF Len(cfg.CorsOrigins) > 0 THEN Del(h3, "Origin") ELSE h3
    IN  customHeaders(h4, cfg.Headers)

\* forwarding headers that keep Origin
forwardingHeadersKeepOrigin(rq, cfg, scheme) ==
    LET h1 == Add(rq.header, "X-Forwarded-For", realIP(rq))
        h2 == Set(h1, "X-Forwarded-Host", rq.host)
        fp == Get(h2, "X-Forwarded-Proto")
        h3 == Set(h2, "X-Forwarded-Proto", IF fp # <<>> THEN fp ELSE scheme)
    IN  customHeaders(h3, cfg.Headers)

\* proxyMiddleware, lines 223-240: the forwarding headers, Origin, and the
\* headers of the configuration
forwardingHeaders(rq, cfg, scheme) ==
    LET h1 == Add(rq.header, "X-Forwarded-For", realIP(rq))
        h2 == Set(h1, "X-Forwarded-Host", rq.host)
        fp == Get(h2, "X-Forwarded-Proto")
        h3 == Set(h2, "X-Forwarded-Proto", IF fp # <<>> THEN fp ELSE scheme)
        h4 == IF Len(cfg.CorsOrigins) > 0 THEN Del(h3, "Origin") ELSE h3
    IN  customHeaders(h4, cfg.Headers)

\* no cookie is removed
ownCookiesNone(cfg) == {}

\* proxyMiddleware, lines 242-250: the cookies that are not sent upstream
ownCookies(cfg) ==
    IF cfg.EnableCSRF
    THEN IF ~cfg.EnableAuthorizationCookies
         THEN {requestURICookie, CSRFCookieName} ELSE {}
    ELSE IF ~cfg.EnableAuthorizationCookies THEN {requestURICookie} ELSE {}

\* a path that is appended to the base path as it is
upstreamPathConcatenated(urlPath, stripBasePath, upstreamBasePath) ==
    LET stripped == IF stripBasePath # <<>>
                    THEN TrimPrefix(urlPath, stripBasePath) ELSE urlPath
    IN  upstreamBasePath \o stripped

\* proxyMiddleware, lines 252-262: the path of the upstream request
upstreamPath(urlPath, stripBasePath, upstreamBasePath) ==
    LET stripped == IF stripBasePath # <<>>
                    THEN TrimPrefix(urlPath, stripBasePath) ELSE urlPath
    IN  IF upstreamBasePath # <<>> THEN Join(upstreamBasePath, stripped) ELSE stripped

\* a rewriting that always sends the Host of the upstream
rewriteUpstreamHost(rq, cfg) ==
    LET mw == proxyMiddleware(cfg, rq.ep.res)
        h5 == forwardingHeaders(rq, cfg, mw.upstreamScheme)
        h6 == IF cfg.EnableCSRF THEN Del(h5, CSRFHeaderName) ELSE h5
    IN  [ rq EXCEPT
            !.rewritten = TRUE,
            !.cookies = filterCookies(rq.cookies, ownCookies(cfg)),
            !.url = [ Scheme |-> mw.upstreamScheme,
                      Host |-> mw.upstreamHost,
                      Path |-> upstreamPath(rq.url.Path, mw.stripBasePath,
                                            mw.upstreamBasePath) ],
            !.host = mw.upstreamHost,
            !.header = h6 ]

\* proxyMiddleware, lines 223-270: the request as it is sent upstream
rewrite(rq, cfg) ==
    LET mw == proxyMiddleware(cfg, rq.ep.res)
        h5 == forwardingHeaders(rq, cfg, mw.upstreamScheme)
        h6 == IF cfg.EnableCSRF THEN Del(h5, CSRFHeaderName) ELSE h5
        v == Get(h6, "Host")
    IN  [ rq EXCEPT
            !.rewritten = TRUE,
            !.cookies = filterCookies(rq.cookies, ownCookies(cfg)),
            !.url = [ Scheme |-> mw.upstreamScheme,
                      Host |-> mw.upstreamHost,
                      Path |-> upstreamPath(rq.url.Path, mw.stripBasePath,
                                            mw.upstreamBasePath) ],
            !.host = IF v # <<>> THEN v
                     ELSE IF ~cfg.PreserveHost THEN mw.upstreamHost ELSE rq.host,
            !.header = IF v # <<>> THEN Del(h6, "Host") ELSE h6 ]

\* the Transport of createStdProxy, lines 291-303 and 317-318: the connection
\* the pooled client opens for a request URL
dial(cfg, u) ==
    IF u.Scheme \notin {unsecureScheme, secureScheme} THEN noDial
    ELSE IF cfg.dialer = "unix"
    THEN [network |-> "unix", address |-> cfg.socketPath]
    ELSE IF u.Host = <<>> THEN noDial
    ELSE [network |-> "tcp", address |-> u.Host]

\* tryUpdateConnection: the connection of the tunnel goes to the host of the
\* request URL
tryDialEndpoint(u) ==
    IF u.Host = <<>> THEN noDial ELSE [network |-> "tcp", address |-> u.Host]

\* a forwarding that calls the pooled client again when the call has failed
forwardRetrying(rq, cfg, tunnelled, reply) ==
    LET out == [ rewrite(rq, cfg) EXCEPT
                   !.pc = "done", !.log = Append(@, "proxyMiddleware.forward") ]
    IN  IF isUpgradedConnection(out)
        THEN LET c == IF tunnelled THEN tryDialEndpoint(out.url) ELSE noDial
             IN  [ out EXCEPT !.upstream = "tunnel", !.dialed = c,
                              !.contacts = @ + 1,
                              !.status = IF c # noDial THEN rq.status
                                         ELSE WriteHeader(rq, 500) ]
        ELSE LET c == dial(cfg, out.url)
                 failed == c = noDial \/ reply = 502
             IN  [ out EXCEPT !.upstream = "pooled", !.dialed = c,
                              !.contacts = IF failed THEN @ + 2 ELSE @ + 1,
                              !.status = WriteHeader(rq, IF c = noDial THEN 502 ELSE reply) ]

\* proxyMiddleware, lines 223-282: rewrite, then tunnel or pooled client; a
\* call of tryUpdateConnection or of r.upstream.ServeHTTP is one contact
forward(rq, cfg, tunnelled, reply) ==
    LET out == [ rewrite(rq, cfg) EXCEPT
                   !.pc = "done", !.log = Append(@, "proxyMiddleware.forward") ]
    IN  IF isUpgradedConnection(out)
        THEN LET c == IF tunnelled THEN tryDialEndpoint(out.url) ELSE noDial
             IN  [ out EXCEPT !.upstream = "tunnel", !.dialed = c,
                              !.contacts = @ + 1,
                              !.status = IF c # noDial THEN rq.status
                                         ELSE WriteHeader(rq, 500) ]
        ELSE LET c == dial(cfg, out.url)
             IN  [ out EXCEPT !.upstream = "pooled", !.dialed = c,
                              !.contacts = @ + 1,
                              !.status = WriteHeader(rq, IF c = noDial THEN 502 ELSE reply) ]

\* a proxy that does not read the scope
proxyMiddlewareAfterUnchecked(rq, cfg, tunnelled, reply) ==
    forward(rq, cfg, tunnelled, reply)

\* proxyMiddleware, lines 214-282: after the inner chain has returned
proxyMiddlewareAfter(rq, cfg, tunnelled, reply) ==
    IF rq.scope.AccessDenied
    THEN [ rq EXCEPT !.pc = "done", !.log = Append(@, "proxyMiddleware.return") ]
    ELSE forward(rq, cfg, tunnelled, reply)

\* what the upstream may answer to a pooled call: its own status, or 502 when
\* it cannot be reached
UpstreamReplies == {200, 502}

----------------------------------------------------------------------------
(* State *)

\* the configuration as it is loaded, with the endpoint parsed from Upstream
\* and the dialer of the network library
loaded(declared, denyAll, notFound, csrf, upstream, cors, headers, cookies, preserve) ==
    [ Declared |-> declared,
      Resources |-> [i \in 1..Len(declared) |-> valid(declared[i])],
      EnableDefaultDeny |-> denyAll,
      EnableDefaultNotFound |-> notFound,
      EnableCSRF |-> csrf,
      Upstream |-> upstream,
      endpoint |-> Parse(upstream),
      dialer |-> "net.Dialer",
      socketPath |-> <<>>,
      CorsOrigins |-> cors,
      Headers |-> headers,
      EnableAuthorizationCookies |-> cookies,
      PreserveHost |-> preserve ]

\* no header is configured
noHeaders == [k \in {} |-> <<>>]

\* createStdProxy, lines 296-307: a unix upstream replaces the dialer and is
\* renamed
createStdProxy(cfg) ==
    IF cfg.endpoint.Scheme = <<"u", "n", "i", "x">>
    THEN [ cfg EXCEPT
             !.dialer = "unix",
             !.socketPath = cfg.endpoint.Host \o cfg.endpoint.Path,
             !.endpoint = [ Scheme |-> unsecureScheme,
                            Host |-> <<"d", "o", "m", "a", "i", "n", "-", "s", "o", "c", "k">>,
                            Path |-> <<>> ] ]
    ELSE cfg

\* the configuration once createReverseProxy has returned
started(cfg) ==
    [ createStdProxy(cfg) EXCEPT !.Resources = provisionedResources(cfg) ]

\* what a client of the pipeline sends before any header is read
plainInbound ==
    [ noInbound EXCEPT !.host = <<"g">>, !.remote = <<"c">> ]

\* the client sent the values vs of header k
sent(rq, k, vs) ==
    [ rq EXCEPT !.inbound.header[k] = vs, !.header[k] = vs ]

\* the client sent the cookies cs
sentCookies(rq, cs) ==
    [ rq EXCEPT !.inbound.cookies = cs, !.cookies = cs ]

\* the CSRF header and the CSRF cookie of the requests of the model
CSRFTokens == { <<>>, << <<"t">> >>, << <<"v">> >> }

CSRFCookies == { <<>>, << [Name |-> CSRFCookieName, Value |-> <<"t">>] >> }

\* the values of the Connection and Upgrade headers of the requests of the model
ConnectionValues == { <<>>, <<<<"u", "p", "g", "r", "a", "d", "e">>>> }

UpgradeValues == { <<>>, <<<<"w", "s">>>> }

Init ==
    /\ \E declared \in SeqsUpTo(ResourcePool, MaxResources),
          denyAll \in BOOLEAN, notFound \in BOOLEAN, csrf \in BOOLEAN :
          config = loaded(declared, denyAll, notFound, csrf, httpUpstream,
                          <<>>, noHeaders, FALSE, FALSE)
    /\ router = noRoutes
    /\ phase = "configured"
    /\ req = noRequest

\* createReverseProxy: startup
createReverseProxy ==
    /\ phase = "configured"
    /\ config' = started(config)
    /\ router' = buildRouter(config)
    /\ phase' = "serving"
    /\ UNCHANGED req

\* a request arrives and is routed
ServeHTTP ==
    /\ phase = "serving"
    /\ req.pc = "idle"
    /\ \E method \in RequestMethods, path \in RequestPaths :
          req' = received(routeRequest(router, method, path), plainInbound)
    /\ UNCHANGED <<config, router, phase>>

ProxyEnter ==
    /\ current(req) = "proxyMiddleware"
    /\ req' = proxyMiddlewareEnter(req)
    /\ UNCHANGED <<config, router, phase>>

Authentication ==
    /\ current(req) = "authenticationMiddleware"
    /\ \E token \in {"none", "invalid", "expired", "valid"}, roles \in TokenRoles,
          refreshed \in BOOLEAN, acceptsHTML \in BOOLEAN :
          req' = authenticationMiddleware(req, token, roles, refreshed, acceptsHTML)
    /\ UNCHANGED <<config, router, phase>>

Admission ==
    /\ current(req) = "admissionMiddleware"
    /\ req' = admissionMiddleware(req, config)
    /\ UNCHANGED <<config, router, phase>>

IdentityHeaders ==
    /\ current(req) = "identityHeadersMiddleware"
    /\ req' = identityHeadersMiddleware(req)
    /\ UNCHANGED <<config, router, phase>>

CSRFSkipResource ==
    /\ current(req) = "csrfSkipResourceMiddleware"
    /\ req' = csrfSkipResourceMiddleware(req, config)
    /\ UNCHANGED <<config, router, phase>>

CSRFProtect ==
    /\ current(req) = "csrfProtectMiddleware"
    /\ IF csrfProtected(req, config)
       THEN \E token \in CSRFTokens, cookies \in CSRFCookies :
               req' = csrfProtectMiddleware(
                         sentCookies(sent(req, CSRFHeaderName, token), cookies), config)
       ELSE req' = csrfProtectMiddleware(req, config)
    /\ UNCHANGED <<config, router, phase>>

CSRFHeader ==
    /\ current(req) = "csrfHeaderMiddleware"
    /\ req' = csrfHeaderMiddleware(req)
    /\ UNCHANGED <<config, router, phase>>

EmptyHandler ==
    /\ req.pc = "terminal"
    /\ req.ep.terminal = emptyHandlerName
    /\ req' = emptyHandler(req)
    /\ UNCHANGED <<config, router, phase>>

MethodNotAllowedHandler ==
    /\ req.pc = "terminal"
    /\ req.ep.terminal = methodNotAllowedHandlerName
    /\ req' = methodNotAllowedHandler(req)
    /\ UNCHANGED <<config, router, phase>>

MethodNotFoundHandler ==
    /\ req.pc = "terminal"
    /\ req.ep.terminal = methodNotFoundHandlerName
    /\ req' = methodNotFoundHandler(req)
    /\ UNCHANGED <<config, router, phase>>

ProxyAfter ==
    /\ req.pc = "proxy"
    /\ \E connection \in ConnectionValues, upgrade \in UpgradeValues,
          tunnelled \in BOOLEAN, reply \in UpstreamReplies :
          req' = proxyMiddlewareAfter(
                    sent(sent(req, "Connection", connection), "Upgrade", upgrade),
                    config, tunnelled, reply)
    /\ UNCHANGED <<config, router, phase>>

\* the response is complete and the scope of the request is gone
Complete ==
    /\ req.pc = "done"
    /\ req' = noRequest
    /\ UNCHANGED <<config, router, phase>>

Next ==
    \/ createReverseProxy
    \/ ServeHTTP
    \/ ProxyEnter
    \/ Authentication
    \/ Admission
    \/ IdentityHeaders
    \/ CSRFSkipResource
    \/ CSRFProtect
    \/ CSRFHeader
    \/ EmptyHandler
    \/ MethodNotAllowedHandler
    \/ MethodNotFoundHandler
    \/ ProxyAfter
    \/ Complete

Spec == Init /\ [][Next]_vars

----------------------------------------------------------------------------
(* The rewriting of a request, for every path: a configuration with one     *)
(* whitelisted Resource on "/*", started, and a request whose inner chain   *)
(* has returned                                                             *)

InboundPaths ==
    { p \in SeqsUpTo({"/", "p", "x", "."}, MaxPathLen) : Len(p) > 0 /\ p[1] = "/" }

StripBasePaths == { <<>>, <<"/", "p">>, <<"/", "p", "/">> }

ResourceUpstreams ==
    { <<>>, httpsUpstreamWithBase, httpsUpstreamWithBase \o <<"/">>,
      <<"h", "t", "t", "p", "s", ":", "/", "/", "u">>, unixSocketUpstream }

DefaultUpstreams ==
    { httpUpstream, httpUpstream \o <<"/", "e">>, unixSocketUpstream }

\* the whitelisted Resource on "/*" with the given Upstream and StripBasePath
openResource(upstream, strip) ==
    [ URL |-> allRoutes, Methods |-> <<>>, WhiteListed |-> TRUE, Roles |-> {},
      EnableCSRF |-> FALSE, Upstream |-> upstream, StripBasePath |-> strip ]

\* the request after proxyMiddleware has called the inner chain of a
\* whitelisted Resource and emptyHandler has returned
returned(rt, method, path, inb) ==
    emptyHandler(proxyMiddlewareEnter(received(routeRequest(rt, method, path), inb)))

InitPath ==
    /\ \E strip \in StripBasePaths, own \in ResourceUpstreams,
          upstream \in DefaultUpstreams, path \in InboundPaths :
          LET cfg == loaded(<<openResource(own, strip)>>, FALSE, FALSE, FALSE,
                            upstream, <<>>, noHeaders, FALSE, FALSE)
          IN  /\ config = started(cfg)
              /\ router = buildRouter(cfg)
              /\ req = returned(buildRouter(cfg), "GET", path, plainInbound)
    /\ phase = "serving"

----------------------------------------------------------------------------
(* The rewriting of a request, for every header set and every set of        *)
(* cookies, on the same whitelisted Resource                                *)

\* the configured header sets: none, or one header
StaticHeaders ==
    {noHeaders} \cup
    { [k \in {n} |-> <<"s">>] :
        n \in { "Origin", "Host", "X-Forwarded-For", "X-Forwarded-Host",
                "X-Forwarded-Proto", CSRFHeaderName } }

\* the header sets of a client; the server keeps Host out of the header map
InboundHeaders ==
    { [ noHeader EXCEPT !["X-Forwarded-For"] = xff, !["Origin"] = origin,
                        !["X-Forwarded-Proto"] = proto ] :
        xff \in SeqsUpTo({ <<"1">>, <<"2">> }, MaxForwardedFor),
        origin \in { <<>>, << <<"o">> >> },
        proto \in { <<>>, << secureScheme >>, << secureScheme, unsecureScheme >> } }

InitHeaders ==
    /\ \E own \in { <<>>, httpsUpstreamWithBase }, cors \in { <<>>, <<"*">> },
          headers \in StaticHeaders, preserve \in BOOLEAN, h \in InboundHeaders :
          LET cfg == loaded(<<openResource(own, <<>>)>>, FALSE, FALSE, FALSE,
                            httpUpstream, cors, headers, FALSE, preserve)
          IN  /\ config = started(cfg)
              /\ router = buildRouter(cfg)
              /\ req = returned(buildRouter(cfg), "GET", <<"/", "x">>,
                                [plainInbound EXCEPT !.header = h])
    /\ phase = "serving"

\* the cookies a client may send
CookiePool ==
    { [Name |-> requestURICookie, Value |-> <<"r">>],
      [Name |-> CSRFCookieName, Value |-> <<"t">>],
      [Name |-> "sid", Value |-> <<"1">>] }

InitCookies ==
    /\ \E csrf \in BOOLEAN, cookies \in BOOLEAN,
          headers \in { noHeaders, [k \in {CSRFHeaderName} |-> <<"s">>] },
          token \in { <<>>, << <<"t">> >> },
          jar \in SeqsUpTo(CookiePool, MaxCookies) :
          LET cfg == loaded(<<openResource(<<>>, <<>>)>>, FALSE, FALSE, csrf,
                            httpUpstream, <<>>, headers, cookies, FALSE)
          IN  /\ config = started(cfg)
              /\ router = buildRouter(cfg)
              /\ req = returned(buildRouter(cfg), "GET", <<"/", "x">>,
                                [plainInbound EXCEPT
                                   !.header = [noHeader EXCEPT ![CSRFHeaderName] = token],
                                   !.cookies = jar])
    /\ phase = "serving"

\* proxyMiddleware forwards the request
Forward ==
    /\ req.pc = "proxy"
    /\ \E reply \in UpstreamReplies :
          req' = proxyMiddlewareAfter(req, config, TRUE, reply)
    /\ UNCHANGED <<config, router, phase>>

SpecPath == InitPath /\ [][Forward]_vars

SpecHeaders == InitHeaders /\ [][Forward]_vars

SpecCookies == InitCookies /\ [][Forward]_vars

----------------------------------------------------------------------------
(* The login flow: /oauth/authorize, the identity provider, /oauth/callback *)

\* the characters of the URLs of the flow, and their bytes
URLCharacters == {"/", "a", "?", "~"}

byteOf(c) == IF c = "/" THEN 47 ELSE IF c = "a" THEN 97 ELSE IF c = "?" THEN 63 ELSE 126

characterOf(b) ==
    IF \E c \in URLCharacters : byteOf(c) = b
    THEN CHOOSE c \in URLCharacters : byteOf(c) = b
    ELSE "#"

\* the alphabet of base64.StdEncoding
encodeStd ==
    << "A", "B", "C", "D", "E", "F", "G", "H", "I", "J", "K", "L", "M",
       "N", "O", "P", "Q", "R", "S", "T", "U", "V", "W", "X", "Y", "Z",
       "a", "b", "c", "d", "e", "f", "g", "h", "i", "j", "k", "l", "m",
       "n", "o", "p", "q", "r", "s", "t", "u", "v", "w", "x", "y", "z",
       "0", "1", "2", "3", "4", "5", "6", "7", "8", "9", "+", "/" >>

RECURSIVE EncodeToString(_)
\* base64.StdEncoding.EncodeToString: three bytes give four characters, and
\* the last one or two bytes are padded with "="
EncodeToString(src) ==
    IF Len(src) = 0 THEN <<>>
    ELSE IF Len(src) = 1
    THEN LET b == byteOf(src[1])
         IN  << encodeStd[(b \div 4) + 1], encodeStd[((b % 4) * 16) + 1], "=", "=" >>
    ELSE IF Len(src) = 2
    THEN LET b == byteOf(src[1])  c == byteOf(src[2])
         IN  << encodeStd[(b \div 4) + 1],
                encodeStd[((b % 4) * 16 + (c \div 16)) + 1],
                encodeStd[((c % 16) * 4) + 1], "=" >>
    ELSE LET b == byteOf(src[1])  c == byteOf(src[2])  d == byteOf(src[3])
         IN  << encodeStd[(b \div 4) + 1],
                encodeStd[((b % 4) * 16 + (c \div 16)) + 1],
                encodeStd[((c % 16) * 4 + (d \div 64)) + 1],
                encodeStd[(d % 64) + 1] >>
             \o EncodeToString(SubSeq(src, 4, Len(src)))

\* the six bits of a character of the alphabet
decodeStd(c) == (CHOOSE i \in 1..64 : encodeStd[i] = c) - 1

RECURSIVE DecodeString(_)
\* base64.StdEncoding.DecodeString of a padded encoding: four characters
\* give three bytes, fewer where the group ends in "="
DecodeString(text) ==
    IF Len(text) < 4 THEN <<>>
    ELSE LET p == decodeStd(text[1])  q == decodeStd(text[2])
             first == characterOf(p * 4 + (q \div 16))
         IN  IF text[3] = "=" THEN << first >>
             ELSE LET r == decodeStd(text[3])
                      second == characterOf((q % 16) * 16 + (r \div 4))
                  IN  IF text[4] = "=" THEN << first, second >>
                      ELSE << first, second,
                              characterOf((r % 4) * 64 + decodeStd(text[4])) >>
                           \o DecodeString(SubSeq(text, 5, Len(text)))

\* the URLs a client may want to come back to
OriginalURLs == { u \in SeqsUpTo(URLCharacters, MaxURLLen) : Len(u) > 0 }

\* the nonces of the state parameter
Nonces == { <<"m">>, <<"n">> }

\* the client before the login: it has stored the URL in the request_uri
\* cookie, as runTestTLSConnect does
login(original) ==
    [ pc |-> "authorize", original |-> original,
      requestURI |-> EncodeToString(original),
      stateCookie |-> <<>>, state |-> <<>>, accessCookie |-> <<>>,
      status |-> 0, location |-> <<>> ]

\* oauthAuthorizationHandler: a fresh nonce goes into the state cookie and
\* into the redirection to the identity provider
oauthAuthorizationHandler(l, nonce) ==
    [ l EXCEPT !.pc = "provider", !.stateCookie = nonce, !.state = nonce,
               !.status = 302, !.location = <<"i", "d", "p">> ]

\* the identity provider sends the client back to the callback with a state
provider(l, state) ==
    [ l EXCEPT !.pc = "callback", !.state = state,
               !.location = <<"/", "o", "a", "u", "t", "h", "/", "c", "a", "l", "l", "b", "a", "c", "k">> ]

\* a callback that sends every login to the default page
oauthCallbackHandlerDefault(l, exchanged) ==
    IF l.state # l.stateCookie \/ ~exchanged
    THEN [ l EXCEPT !.pc = "refused", !.status = 403, !.location = <<>> ]
    ELSE [ l EXCEPT !.pc = "landed", !.status = 302, !.accessCookie = <<"j", "w", "t">>,
                    !.location = <<"/">> ]

\* oauthCallbackHandler: the state must be the one of the state cookie and the
\* code must be exchanged for tokens; the access cookie is set and the client
\* is sent to the URL decoded from the request_uri cookie
oauthCallbackHandler(l, exchanged) ==
    IF l.state # l.stateCookie \/ ~exchanged
    THEN [ l EXCEPT !.pc = "refused", !.status = 403, !.location = <<>> ]
    ELSE [ l EXCEPT !.pc = "landed", !.status = 302, !.accessCookie = <<"j", "w", "t">>,
                    !.location = IF l.requestURI = <<>> THEN <<"/">>
                                 ELSE DecodeString(l.requestURI) ]

InitLogin ==
    /\ LET cfg == loaded(<<>>, FALSE, FALSE, FALSE, httpUpstream, <<>>,
                         noHeaders, FALSE, FALSE)
       IN  config = started(cfg) /\ router = buildRouter(cfg)
    /\ phase = "serving"
    /\ \E original \in OriginalURLs : req = login(original)

Authorize ==
    /\ req.pc = "authorize"
    /\ \E nonce \in Nonces : req' = oauthAuthorizationHandler(req, nonce)
    /\ UNCHANGED <<config, router, phase>>

Provider ==
    /\ req.pc = "provider"
    /\ \E state \in Nonces : req' = provider(req, state)
    /\ UNCHANGED <<config, router, phase>>

Callback ==
    /\ req.pc = "callback"
    /\ \E exchanged \in BOOLEAN : req' = oauthCallbackHandler(req, exchanged)
    /\ UNCHANGED <<config, router, phase>>

NextLogin == Authorize \/ Provider \/ Callback

SpecLogin == InitLogin /\ [][NextLogin]_vars

----------------------------------------------------------------------------
(* Requests handled at the same time: every request has its own slot, with  *)
(* its own http.Request and RequestScope; the handlers of the slots take    *)
(* their steps in any order                                                 *)

\* what a client and the upstream bring to the steps of one request
StepInputs ==
    { [ token |-> t, roles |-> {}, refreshed |-> FALSE, acceptsHTML |-> FALSE,
        csrfToken |-> <<>>, csrfCookies |-> <<>>,
        connection |-> <<>>, upgrade |-> <<>>, tunnelled |-> TRUE, reply |-> 200 ] :
        t \in {"none", "valid"} }

\* the next step of the handler of a request: the middleware it is about to
\* enter, the terminal handler, the proxy after the inner chain, the end
advance(rq, cfg, in) ==
    IF rq.pc = "chain"
    THEN IF current(rq) = "proxyMiddleware" THEN proxyMiddlewareEnter(rq)
         ELSE IF current(rq) = "authenticationMiddleware"
         THEN authenticationMiddleware(rq, in.token, in.roles, in.refreshed, in.acceptsHTML)
         ELSE IF current(rq) = "admissionMiddleware" THEN admissionMiddleware(rq, cfg)
         ELSE IF current(rq) = "identityHeadersMiddleware" THEN identityHeadersMiddleware(rq)
         ELSE IF current(rq) = "csrfSkipResourceMiddleware"
         THEN csrfSkipResourceMiddleware(rq, cfg)
         ELSE IF current(rq) = "csrfProtectMiddleware"
         THEN IF csrfProtected(rq, cfg)
              THEN csrfProtectMiddleware(
                      sentCookies(sent(rq, CSRFHeaderName, in.csrfToken), in.csrfCookies), cfg)
              ELSE csrfProtectMiddleware(rq, cfg)
         ELSE csrfHeaderMiddleware(rq)
    ELSE IF rq.pc = "terminal"
    THEN IF rq.ep.terminal = emptyHandlerName THEN emptyHandler(rq)
         ELSE IF rq.ep.terminal = methodNotAllowedHandlerName
         THEN methodNotAllowedHandler(rq)
         ELSE methodNotFoundHandler(rq)
    ELSE IF rq.pc = "proxy"
    THEN proxyMiddlewareAfter(
            sent(sent(rq, "Connection", in.connection), "Upgrade", in.upgrade),
            cfg, in.tunnelled, in.reply)
    ELSE noRequest

\* a handler that keeps the upstream of the last request in the endpoint of
\* the proxy
oauthProxyLastUpstream(cfg, rq) ==
    IF rq.rewritten
    THEN [ cfg EXCEPT !.endpoint = [ Scheme |-> rq.url.Scheme, Host |-> rq.url.Host,
                                     Path |-> cfg.endpoint.Path ] ]
    ELSE cfg

\* the fields of the oauthProxy after a step of a handler: the handlers of
\* lines 211-283 read r.config, r.endpoint's copies and r.upstream, and
\* write none of them
oauthProxy(cfg, rq) == cfg

\* a protected Resource with its own Upstream, and the open Resource on "/*"
ConcurrentResources ==
    << [ URL |-> <<"/", "a", "*">>, Methods |-> <<"GET">>, WhiteListed |-> FALSE,
         Roles |-> {}, EnableCSRF |-> TRUE,
         Upstream |-> httpsUpstreamWithBase, StripBasePath |-> <<"/", "a">> ],
       openResource(<<>>, <<>>) >>

InitConcurrent ==
    /\ \E upstream \in {httpUpstream, unixSocketUpstream} :
          LET cfg == loaded(ConcurrentResources, FALSE, FALSE, TRUE, upstream,
                            <<>>, noHeaders, FALSE, FALSE)
          IN  config = started(cfg) /\ router = buildRouter(cfg)
    /\ phase = "serving"
    /\ req = [i \in 1..MaxRequests |-> noRequest]

\* a request arrives in a free slot
Arrive ==
    /\ \E i \in 1..MaxRequests, path \in { <<"/", "a">>, <<"/", "b">> } :
          /\ req[i].pc = "idle"
          /\ req' = [req EXCEPT ![i] =
                        received(routeRequest(router, "GET", path), plainInbound)]
    /\ UNCHANGED <<config, router, phase>>

\* the handler of one request takes its next step
Step ==
    /\ \E i \in 1..MaxRequests, in \in StepInputs :
          /\ req[i].pc # "idle"
          /\ req' = [req EXCEPT ![i] = advance(req[i], config, in)]
          /\ config' = oauthProxy(config, req'[i])
    /\ UNCHANGED <<router, phase>>

NextConcurrent == Arrive \/ Step

SpecConcurrent == InitConcurrent /\ [][NextConcurrent]_vars

----------------------------------------------------------------------------
(* Vocabulary of the properties *)

\* a request is in flight, or its response has just been completed
InFlight == req.pc # "idle"

\* the request was routed to the chain of a resource
OnResource == InFlight /\ req.ep.res # 0

\* the resource whose chain the request was routed to
Matched == config.Resources[req.ep.res]

\* the handler named has run for the request
Ran(name) == name \in Range(req.log)

\* the upstream was contacted for the request
Forwarded == req.upstream # "none"

\* the middlewares that decide on access or act on an identity
innerMiddlewares ==
    { "authenticationMiddleware", "admissionMiddleware", "identityHeadersMiddleware",
      "csrfSkipResourceMiddleware", "csrfProtectMiddleware", "csrfHeaderMiddleware" }

IsMiddleware(name) == name \in innerMiddlewares \cup {"proxyMiddleware"}

\* the configuration file declares a resource for "/*"
DeclaresAllRoutes ==
    \E i \in 1..Len(config.Declared) : config.Declared[i].URL = <<"/", "*">>

\* the path of the request matches no declared resource other than "/*"
OnlyAllRoutes ==
    \A i \in 1..Len(config.Declared) :
        config.Declared[i].URL # <<"/", "*">> => ~Matches(config.Declared[i].URL, req.path)

----------------------------------------------------------------------------
(* C1: for a request routed to a non-whitelisted Resource, as long as the    *)
(* authentication middleware has produced no valid identity, neither the     *)
(* pooled upstream client nor the upgrade tunnel has been invoked and the    *)
(* request has not been rewritten.                                           *)
C1_NoIdentityNoUpstream ==
    (OnResource /\ ~Matched.WhiteListed /\ ~req.scope.Identity.valid)
        => (~Forwarded /\ ~req.rewritten)

\* an expired token that could not be refreshed: the proxy has returned
\* without forwarding
C1_Witness ==
    /\ OnResource /\ ~Matched.WhiteListed
    /\ req.pc = "done"
    /\ req.token = "expired" /\ ~req.scope.Identity.valid
    /\ Ran("authenticationMiddleware") /\ Ran("proxyMiddleware.return")
    /\ ~Forwarded

(* C2: the proxy contacts the upstream only from the point where the inner   *)
(* chain has returned and only if the scope is not marked AccessDenied; if   *)
(* it is marked, the proxy returns with the request neither rewritten nor    *)
(* forwarded.                                                                *)
C2_DeniedNeverForwarded ==
    [][ /\ (req.pc = "proxy" /\ req.scope.AccessDenied)
            => (req'.pc = "done" /\ ~req'.rewritten /\ req'.upstream = "none")
        /\ ((req'.upstream # "none" \/ req'.rewritten) /\ req.upstream = "none")
            => (req.pc = "proxy" /\ ~req.scope.AccessDenied /\ ~req'.scope.AccessDenied)
      ]_vars

\* admission has denied the request and the proxy has returned
C2_Witness ==
    /\ req.pc = "done"
    /\ req.scope.AccessDenied /\ req.scope.Identity.valid
    /\ req.status = 403
    /\ Last(req.log) = "proxyMiddleware.return"
    /\ ~req.rewritten /\ ~Forwarded

(* C3: on a non-whitelisted Resource the middlewares that have run are a     *)
(* prefix of Proxy, Authentication, Admission, IdentityHeaders,              *)
(* CSRFSkipResource, CSRFProtect, CSRFHeader, in that order, and the proxy   *)
(* forwards only once all of them and then the terminal handler have run.    *)
C3_Order ==
    (OnResource /\ ~Matched.WhiteListed) =>
        LET order == << "proxyMiddleware", "authenticationMiddleware",
                        "admissionMiddleware", "identityHeadersMiddleware",
                        "csrfSkipResourceMiddleware", "csrfProtectMiddleware",
                        "csrfHeaderMiddleware" >>
            ran == SelectSeq(req.log, IsMiddleware)
        IN  /\ IsPrefix(ran, order)
            /\ IsPrefix(ran, req.log)
            /\ Ran("proxyMiddleware.forward") =>
                  /\ Len(req.log) = 9
                  /\ SubSeq(req.log, 1, 7) = order
                  /\ req.log[8] \in {"emptyHandler", "methodNotAllowedHandler"}
                  /\ req.log[9] = "proxyMiddleware.forward"

\* a request that went through the whole chain and was forwarded
C3_Witness ==
    /\ OnResource /\ ~Matched.WhiteListed
    /\ req.pc = "done"
    /\ req.log = << "proxyMiddleware", "authenticationMiddleware",
                    "admissionMiddleware", "identityHeadersMiddleware",
                    "csrfSkipResourceMiddleware", "csrfProtectMiddleware",
                    "csrfHeaderMiddleware", "emptyHandler",
                    "proxyMiddleware.forward" >>

(* C4: on a whitelisted Resource only the proxy runs: none of the            *)
(* authentication, admission, identity-header and CSRF middlewares ever      *)
(* does, and a request with an allowed method is forwarded.                  *)
C4_WhiteListedProxyOnly ==
    (OnResource /\ Matched.WhiteListed) =>
        /\ \A name \in innerMiddlewares : ~Ran(name)
        /\ ~req.scope.AccessDenied
        /\ (req.pc = "done" /\ req.method \in Range(Matched.Methods)) =>
              (Forwarded /\ req.log = <<"proxyMiddleware", "emptyHandler",
                                        "proxyMiddleware.forward">>)

\* a request on a whitelisted resource, forwarded with no identity
C4_Witness ==
    /\ OnResource /\ Matched.WhiteListed
    /\ req.pc = "done"
    /\ req.method \in Range(Matched.Methods)
    /\ req.upstream = "pooled" /\ req.status = 200
    /\ ~req.scope.Identity.valid

(* C5: with EnableDefaultDeny on, EnableDefaultNotFound off and no Resource  *)
(* declared for "/*", startup appends exactly one Resource, {URL "/*", all   *)
(* methods, not whitelisted}; a request whose path matches no declared       *)
(* resource runs the full authenticated chain of that resource and is        *)
(* forwarded only with a valid identity.                                     *)
C5_DefaultDenySynthesized ==
    ( /\ phase = "serving"
      /\ config.EnableDefaultDeny /\ ~config.EnableDefaultNotFound
      /\ ~DeclaresAllRoutes ) =>
        LET n == Len(config.Declared)
        IN  /\ Len(config.Resources) = n + 1
            /\ \A i \in 1..n : config.Resources[i].URL = config.Declared[i].URL
            /\ config.Resources[n + 1].URL = <<"/", "*">>
            /\ Range(config.Resources[n + 1].Methods) =
                  {"DELETE", "GET", "HEAD", "OPTIONS", "PATCH", "POST", "PUT", "TRACE"}
            /\ ~config.Resources[n + 1].WhiteListed
            /\ (InFlight /\ OnlyAllRoutes) =>
                  /\ req.ep.res = n + 1
                  /\ req.ep.mw = << "proxyMiddleware", "authenticationMiddleware",
                                    "admissionMiddleware", "identityHeadersMiddleware",
                                    "csrfSkipResourceMiddleware", "csrfProtectMiddleware",
                                    "csrfHeaderMiddleware" >>
                  /\ Forwarded => req.scope.Identity.valid

\* an authenticated request to an undeclared path, forwarded by the chain of
\* the synthesized resource
C5_Witness ==
    /\ phase = "serving"
    /\ config.EnableDefaultDeny /\ ~config.EnableDefaultNotFound /\ ~DeclaresAllRoutes
    /\ Len(config.Declared) = 1
    /\ req.pc = "done" /\ OnlyAllRoutes
    /\ req.ep.res = 2
    /\ req.scope.Identity.valid /\ req.upstream = "pooled"

(* C6: with EnableDefaultDeny and EnableDefaultNotFound both on and no       *)
(* Resource declared for "/*", a request whose path matches no declared      *)
(* resource is answered 401 when it is unauthenticated and 404 when it is    *)
(* authenticated, and is never forwarded.                                    *)
C6_NotFoundAfterAuthentication ==
    ( /\ phase = "serving"
      /\ config.EnableDefaultDeny /\ config.EnableDefaultNotFound
      /\ ~DeclaresAllRoutes
      /\ InFlight /\ OnlyAllRoutes ) =>
        /\ ~Forwarded
        /\ req.pc = "done" =>
              req.status = IF req.scope.Identity.valid THEN 404 ELSE 401

(* C7: with EnableDefaultDeny on and a Resource declared for "/*", whatever  *)
(* EnableDefaultNotFound is, no resource is synthesized, every method of     *)
(* "/*" is bound to the chain of a declared "/*" Resource, and a request     *)
(* matching no more specific resource is handled by that chain, never by the *)
(* unauthenticated forwarding handler or by a 404 handler.                   *)
C7_DeclaredCatchAll ==
    ( /\ phase = "serving"
      /\ config.EnableDefaultDeny
      /\ DeclaresAllRoutes ) =>
        /\ Len(config.Resources) = Len(config.Declared)
        /\ \A m \in {"DELETE", "GET", "HEAD", "OPTIONS", "PATCH", "POST", "PUT", "TRACE"} :
              LET ep == router[<<"/", "*">>][m]
              IN  /\ ep.res \in 1..Len(config.Declared)
                  /\ config.Declared[ep.res].URL = <<"/", "*">>
                  /\ ep.terminal # "methodNotFoundHandler"
        /\ (InFlight /\ OnlyAllRoutes) =>
              /\ OnResource
              /\ config.Declared[req.ep.res].URL = <<"/", "*">>
              /\ ~Ran("methodNotFoundHandler")
              /\ ~Matched.WhiteListed =>
                    /\ req.ep.mw[2] = "authenticationMiddleware"
                    /\ req.ep.mw[3] = "admissionMiddleware"
                    /\ Forwarded => req.scope.Identity.valid

\* EnableDefaultNotFound is off, so that the unauthenticated forwarding
\* handler was bound to "/*" before the declared resource: the request was
\* nevertheless denied by the authentication of the declared resource
C7_Witness ==
    /\ phase = "serving"
    /\ config.EnableDefaultDeny /\ ~config.EnableDefaultNotFound /\ DeclaresAllRoutes
    /\ req.pc = "done" /\ OnlyAllRoutes
    /\ OnResource /\ ~Matched.WhiteListed
    /\ ~req.scope.Identity.valid /\ req.scope.AccessDenied
    /\ ~Forwarded

(* C8 as stated: with EnableDefaultDeny off, and EnableDefaultNotFound off   *)
(* or a Resource declared for "/*", a request to a path matched only by      *)
(* "/*" meets no identity check and is forwarded.                            *)
C8_AsStated ==
    ( /\ phase = "serving"
      /\ ~config.EnableDefaultDeny
      /\ (~config.EnableDefaultNotFound \/ DeclaresAllRoutes)
      /\ InFlight /\ OnlyAllRoutes ) =>
        /\ "authenticationMiddleware" \notin Range(req.ep.mw)
        /\ req.pc = "done" => Forwarded

(* C8, amended: with EnableDefaultDeny off, EnableDefaultNotFound off and no *)
(* Resource declared for "/*", every method of "/*" is bound to the proxy    *)
(* alone, and a request to a path matched only by "/*" is forwarded without  *)
(* any identity check.                                                       *)
C8_OpenCatchAll ==
    ( /\ phase = "serving"
      /\ ~config.EnableDefaultDeny /\ ~config.EnableDefaultNotFound
      /\ ~DeclaresAllRoutes ) =>
        /\ \A m \in {"DELETE", "GET", "HEAD", "OPTIONS", "PATCH", "POST", "PUT", "TRACE"} :
              router[<<"/", "*">>][m] = [mw |-> <<"proxyMiddleware">>, res |-> 0,
                                         terminal |-> "emptyHandler"]
        /\ (InFlight /\ OnlyAllRoutes) =>
              /\ req.ep.mw = <<"proxyMiddleware">> /\ req.ep.res = 0
              /\ ~Ran("authenticationMiddleware")
              /\ ~req.scope.AccessDenied
              /\ req.pc = "done" => Forwarded

\* a request without identity to an undeclared path, forwarded
C8_Witness ==
    /\ phase = "serving"
    /\ ~config.EnableDefaultDeny /\ ~config.EnableDefaultNotFound /\ ~DeclaresAllRoutes
    /\ req.pc = "done" /\ OnlyAllRoutes /\ req.ep.res = 0
    /\ ~req.scope.Identity.valid
    /\ req.upstream = "pooled"

C10_EmptyMethodsMeansAll ==
    phase = "serving" =>
        /\ \A p \in DOMAIN router :
           \A m \in {"DELETE", "GET", "HEAD", "OPTIONS", "PATCH", "POST", "PUT", "TRACE"} :
              LET ep == router[p][m]
              IN  (ep.res \in 1..Len(config.Declared)
                   /\ config.Declared[ep.res].Methods = <<>>)
                    => ep.terminal = "emptyHandler"
        /\ ( /\ OnResource
             /\ req.ep.res <= Len(config.Declared)
             /\ config.Declared[req.ep.res].Methods = <<>> ) =>
              /\ req.status # 405
              /\ ~Ran("methodNotAllowedHandler")
              /\ (req.pc = "done" /\ ~req.scope.AccessDenied) =>
                    (Ran("emptyHandler") /\ Forwarded)

\* a POST on a protected resource declared without methods, forwarded
C10_Witness ==
    /\ OnResource
    /\ req.ep.res <= Len(config.Declared)
    /\ config.Declared[req.ep.res].Methods = <<>>
    /\ ~Matched.WhiteListed
    /\ req.method = "POST"
    /\ req.pc = "done"
    /\ Ran("emptyHandler") /\ req.upstream = "pooled"

(* C11 as stated: the Resource whose chain handles a request is a Resource   *)
(* whose URL pattern, without its wildcard, is the longest prefix of the     *)
(* path among the Resources.                                                 *)
C11_AsStated ==
    (phase = "serving" /\ InFlight) =>
        LET text(i) == IF Last(config.Resources[i].URL) = "*"
                       THEN Front(config.Resources[i].URL)
                       ELSE config.Resources[i].URL
            cands == {i \in 1..Len(config.Resources) : IsPrefix(text(i), req.path)}
        IN  cands # {} =>
              /\ req.ep.res \in cands
              /\ \A j \in cands : Len(text(j)) <= Len(text(req.ep.res))

(* C11, amended: for URL patterns made of literal text with an optional      *)
(* trailing "*", the Resource whose chain handles a request is the one whose *)
(* URL is the path itself or, failing that, the one whose URL ends in "*"    *)
(* and has the longest text before the "*" that is a prefix of the path; a   *)
(* URL without "*" matches the identical path only; of two Resources with    *)
(* the same URL the one later in the configuration is selected.              *)
C11_Routing ==
    (phase = "serving" /\ InFlight) =>
        LET n == Len(config.Resources)
            url(i) == config.Resources[i].URL
            same == {i \in 1..n : url(i) = req.path}
            wild == {i \in 1..n : url(i)[Len(url(i))] = "*"
                                  /\ Len(url(i)) - 1 <= Len(req.path)
                                  /\ \A k \in 1..(Len(url(i)) - 1) : url(i)[k] = req.path[k]}
            best == IF same # {} THEN same
                    ELSE {i \in wild : \A j \in wild : Len(url(j)) <= Len(url(i))}
        IN  IF best = {} THEN req.ep.res = 0
            ELSE /\ req.ep.res \in best
                 /\ \A j \in best : j <= req.ep.res

\* "/a" is declared after "/a*": a request to /a is served by the resource
\* "/a", and both of them are prefixes of the path
C11_Witness ==
    /\ phase = "serving" /\ req.pc = "done"
    /\ Len(config.Resources) = 2
    /\ config.Resources[1].URL = <<"/", "a", "*">>
    /\ config.Resources[2].URL = <<"/", "a">>
    /\ req.path = <<"/", "a">>
    /\ req.ep.res = 2

----------------------------------------------------------------------------
\* a path of "/"-led elements, none of them empty, "." or ".."
PlainPath(s) ==
    /\ Len(s) > 0 /\ s[1] = "/" /\ Last(s) # "/"
    /\ \A i \in 1..(Len(s) - 1) : ~(s[i] = "/" /\ s[i + 1] = "/")
    /\ \A e \in Range(Split(s)) : e \notin { <<".">>, <<".", ".">> }

\* a base path without the "/" it may end with
Untrailed(base) == IF Len(base) > 0 /\ Last(base) = "/" THEN Front(base) ELSE base

(* C12: for a Resource with StripBasePath P and an inbound path P + s, s a   *)
(* plain path such as "/x", the path sent upstream is the base path of the   *)
(* effective upstream, s after it with exactly one "/" between them and no   *)
(* "//" anywhere (s alone when the base path is empty); an inbound path that *)
(* does not start with P keeps all of its elements.                          *)
C12_StripAndJoin ==
    (phase = "serving" /\ req.rewritten /\ req.ep.res # 0) =>
        LET P == config.Resources[req.ep.res].StripBasePath
            base == proxyMiddleware(config, req.ep.res).upstreamBasePath
            s == SubSeq(req.path, Len(P) + 1, Len(req.path))
        IN  /\ (P # <<>> /\ IsPrefix(P, req.path) /\ PlainPath(s)) =>
                 /\ req.url.Path = Untrailed(base) \o s
                 /\ \A i \in 1..(Len(req.url.Path) - 1) :
                       ~(req.url.Path[i] = "/" /\ req.url.Path[i + 1] = "/")
            /\ (P # <<>> /\ ~IsPrefix(P, req.path) /\ PlainPath(req.path)) =>
                 req.url.Path = Untrailed(base) \o req.path

C12_Witness ==
    /\ req.rewritten /\ req.upstream = "pooled"
    /\ config.Resources[req.ep.res].StripBasePath = <<"/", "p">>
    /\ req.path = <<"/", "p", "/", "x">>
    /\ proxyMiddleware(config, req.ep.res).upstreamBasePath = <<"/", "b", "/">>
    /\ req.url.Path = <<"/", "b", "/", "x">>

----------------------------------------------------------------------------
\* the address the proxy takes for the client's: the one in the inbound
\* X-Forwarded-For when there is one, the peer's otherwise
ClientIP ==
    IF Len(req.inbound.header["X-Forwarded-For"]) > 0
    THEN req.inbound.header["X-Forwarded-For"][1]
    ELSE req.inbound.remote

----------------------------------------------------------------------------
(* C14 as stated: when CorsOrigins is not empty no forwarded request carries *)
(* an Origin header, whatever the inbound headers and the configured headers *)
(* are.                                                                      *)
C14_AsStated ==
    (Forwarded /\ Len(config.CorsOrigins) > 0) => req.header["Origin"] = <<>>

(* C14, amended: when CorsOrigins is not empty, no forwarded request carries *)
(* the Origin header of the client; the only Origin a forwarded request may  *)
(* carry is the one the configured headers set.                              *)
C14_OriginRemoved ==
    (Forwarded /\ Len(config.CorsOrigins) > 0) =>
        IF "Origin" \in DOMAIN config.Headers
        THEN req.header["Origin"] = << config.Headers["Origin"] >>
        ELSE req.header["Origin"] = <<>>

C14_Witness ==
    /\ Forwarded /\ Len(config.CorsOrigins) > 0
    /\ "Origin" \notin DOMAIN config.Headers
    /\ req.inbound.header["Origin"] # <<>>
    /\ req.header["Origin"] = <<>>

----------------------------------------------------------------------------
\* the Host entry of the header map when the rewriting reads it
ExplicitHost ==
    IF "Host" \in DOMAIN config.Headers THEN config.Headers["Host"]
    ELSE Get(req.inbound.header, "Host")

\* the outbound Host is the explicit one, the upstream's, or the inbound one
HostRule ==
    IF ExplicitHost # <<>>
    THEN req.host = ExplicitHost /\ req.header["Host"] = <<>>
    ELSE IF ~config.PreserveHost
    THEN req.host = proxyMiddleware(config, req.ep.res).upstreamHost
    ELSE req.host = req.inbound.host

(* C15 as stated: the outbound Host of a forwarded request is the explicit   *)
(* Host entry of the header map when there is one, and the entry is removed; *)
(* otherwise the host of the effective upstream when PreserveHost is false;  *)
(* otherwise the inbound Host.  X-Forwarded-Host is the inbound Host in all  *)
(* three cases.                                                              *)
C15_AsStated ==
    Forwarded =>
        /\ HostRule
        /\ req.header["X-Forwarded-Host"] = << req.inbound.host >>

(* C15, amended: the same rule for the outbound Host; X-Forwarded-Host is    *)
(* the inbound Host in all three cases unless the configured headers name    *)
(* X-Forwarded-Host, and is the configured value when they do.               *)
C15_OutboundHost ==
    Forwarded =>
        /\ HostRule
        /\ IF "X-Forwarded-Host" \in DOMAIN config.Headers
           THEN req.header["X-Forwarded-Host"] = << config.Headers["X-Forwarded-Host"] >>
           ELSE req.header["X-Forwarded-Host"] = << req.inbound.host >>

C15_Witness ==
    /\ Forwarded /\ config.PreserveHost
    /\ ExplicitHost = <<>>
    /\ req.host = req.inbound.host
    /\ req.host # proxyMiddleware(config, req.ep.res).upstreamHost
    /\ req.header["X-Forwarded-Host"] = << req.inbound.host >>

----------------------------------------------------------------------------
\* the names of the cookies of the forwarded request
CookieNames == { req.cookies[i].Name : i \in 1..Len(req.cookies) }

----------------------------------------------------------------------------
\* the client asked for an upgrade: Connection says upgrade and there is an
\* Upgrade header
AskedUpgrade ==
    /\ req.inbound.header["Connection"] # <<>>
    /\ req.inbound.header["Connection"][1] = <<"u", "p", "g", "r", "a", "d", "e">>
    /\ req.inbound.header["Upgrade"] # <<>>

\* the tunnel could not be established
TunnelFailed == req.upstream = "tunnel" /\ req.dialed = noDial

----------------------------------------------------------------------------
\* where the pooled client has to connect for an upstream URL: the socket of
\* a unix URL, the host of any other
Destination(upstream) ==
    LET u == Parse(upstream)
    IN  IF u.Scheme = <<"u", "n", "i", "x">>
        THEN [network |-> "unix", address |-> u.Host \o u.Path]
        ELSE [network |-> "tcp", address |-> u.Host]

(* C18: a request matched to a Resource that declares an Upstream is sent to *)
(* that upstream, with its scheme and host in the request URL, and a request *)
(* matched to a Resource without one is sent to the default upstream,        *)
(* whatever the default upstream is, a unix socket included.                 *)
C18_SentToOwnUpstream ==
    (phase = "serving" /\ req.upstream = "pooled" /\ req.ep.res # 0) =>
        LET own == config.Resources[req.ep.res].Upstream
        IN  IF own # <<>>
            THEN /\ req.url.Scheme = Parse(own).Scheme
                 /\ req.url.Host = Parse(own).Host
                 /\ req.dialed = Destination(own)
            ELSE req.dialed = Destination(config.Upstream)

----------------------------------------------------------------------------
\* the CSRF header of the request is absent or is not the value of its CSRF
\* cookie
NoDoubleSubmit ==
    \/ req.inbound.header[CSRFHeaderName] = <<>>
    \/ req.inbound.header[CSRFHeaderName][1] #
          cookieValue(req.inbound.cookies, CSRFCookieName)

----------------------------------------------------------------------------
(* C19: for every URL stored, base64-encoded, in the request_uri cookie when *)
(* /oauth/authorize is called, once the identity provider has come back to   *)
(* the callback with the state of the state cookie and the tokens have been  *)
(* obtained, the final redirection is to exactly that URL and the access     *)
(* cookie is set.                                                            *)
C19_RequestURIRoundTrip ==
    (req.pc \in {"landed", "refused"}) =>
        IF req.state = req.stateCookie /\ req.pc = "landed"
        THEN /\ req.status = 302
             /\ req.location = req.original
             /\ req.accessCookie # <<>>
        ELSE req.accessCookie = <<>> /\ req.location # req.original

C19_Witness ==
    /\ req.pc = "landed"
    /\ req.original = <<"/", "a", "?">>
    /\ req.requestURI = <<"L", "2", "E", "/">>
    /\ req.location = <<"/", "a", "?">>
    /\ req.accessCookie # <<>>

----------------------------------------------------------------------------
\* the upstream URL a request on the matched Resource is meant for: the
\* Resource's own when it declares one, the default one otherwise
EffectiveUpstream ==
    IF req.ep.res # 0 /\ config.Resources[req.ep.res].Upstream # <<>>
    THEN config.Resources[req.ep.res].Upstream
    ELSE config.Upstream

(* C21: no forwarded request has the URL scheme "unix" or the socket path in *)
(* its URL: when the effective upstream, the default one or the one of the   *)
(* Resource, has the scheme unix, the URL of the forwarded request has the   *)
(* scheme http, the host "domain-sock" and no base path, and the connection  *)
(* goes to the socket at host+path.                                          *)
C21_UnixNormalized ==
    (phase = "serving" /\ Forwarded) =>
        /\ req.url.Scheme # <<"u", "n", "i", "x">>
        /\ Parse(EffectiveUpstream).Scheme = <<"u", "n", "i", "x">> =>
              /\ req.url.Scheme = unsecureScheme
              /\ req.url.Host = <<"d", "o", "m", "a", "i", "n", "-", "s", "o", "c", "k">>
              /\ req.url.Path =
                    upstreamPath(req.path, proxyMiddleware(config, req.ep.res).stripBasePath, <<>>)
              /\ req.dialed = Destination(EffectiveUpstream)

----------------------------------------------------------------------------
\* what has happened to the upstream for the request in flight
Contact ==
    IF req.contacts = 0 THEN "none"
    ELSE IF req.contacts = 1 THEN req.upstream ELSE "several"

----------------------------------------------------------------------------
\* the request of slot i has been forwarded as its own scope, its own path
\* and the Resource it matched say
OwnOutcome(i) ==
    LET mw == proxyMiddleware(config, req[i].ep.res)
    IN  /\ req[i].rewritten = (req[i].pc = "done" /\ ~req[i].scope.AccessDenied)
        /\ req[i].rewritten =>
              /\ req[i].url = [ Scheme |-> mw.upstreamScheme, Host |-> mw.upstreamHost,
                                Path |-> upstreamPath(req[i].path, mw.stripBasePath,
                                                      mw.upstreamBasePath) ]
              /\ req[i].host = mw.upstreamHost
              /\ req[i].header["X-Forwarded-Host"] = << req[i].inbound.host >>
              /\ req[i].header["X-Forwarded-Proto"] = << mw.upstreamScheme >>

----------------------------------------------------------------------------
(* C24: a request whose method is not in the Methods of the Resource it      *)
(* matched is never rewritten or forwarded, on a whitelisted Resource as on  *)
(* any other: after the MethodNotAllowed handler has answered, the proxy     *)
(* contacts no upstream.                                                     *)
C24_UnlistedNeverForwarded ==
    (phase = "serving" /\ OnResource) =>
        /\ req.method \notin Range(Matched.Methods) => (~Forwarded /\ ~req.rewritten)
        /\ Ran(methodNotAllowedHandlerName) => (~Forwarded /\ ~req.rewritten)

----------------------------------------------------------------------------
(* C25: when the effective upstream has a base path B, the path of every     *)
(* forwarded request is B or starts with B and a "/", whatever the inbound   *)
(* path is, ".." and empty elements included.                                *)
C25_StaysUnderBase ==
    (phase = "serving" /\ Forwarded) =>
        LET base == proxyMiddleware(config, req.ep.res).upstreamBasePath
            B == Untrailed(base)
        IN  base # <<>> =>
               \/ req.url.Path = B
               \/ IsPrefix(B \o <<"/">>, req.url.Path)

====
